---- MODULE Spec2Model ----
(***************************************************************************)
(* kraken-client: the token-bucket rate limiter (src/api/rate_limiter.rs), *)
(* the REST dispatch layer (src/api/public.rs, src/api/private.rs) and the *)
(* streaming session (src/api/websocket.rs).                               *)
(*                                                                         *)
(* Time is counted in whole seconds.  Duration and Instant have nanosecond *)
(* resolution in the program; the clock of the model advances by Quantum   *)
(* seconds per Tick.                                                       *)
(***************************************************************************)
EXTENDS Integers, Sequences, FiniteSets, TLC

\* ------------------------------------------------------------------ bounds
NumCallers == 2      \* concurrent tasks sharing one RateLimiter
MaxCalls == 22       \* acquire calls made in one behaviour
Quantum == 30        \* seconds the clock advances per Tick
MaxTime == 90        \* last clock value explored

\* ------------------------------------------------------------ rate limiter
Tier == {"Tier1", "Tier2", "Tier3", "Tier4"}

Callers == 1..NumCallers

Min(a, b) == IF a < b THEN a ELSE b

\* RateLimiter::new: the (max_tokens, refill_time) pair of each tier
TierMaxTokens(t) ==
  CASE t = "Tier1" -> 15
    [] t = "Tier2" -> 20
    [] t = "Tier3" -> 20
    [] t = "Tier4" -> 15

TierRefillTime(t) ==
  CASE t = "Tier1" -> 45
    [] t = "Tier2" -> 60
    [] t = "Tier3" -> 60
    [] t = "Tier4" -> 60

\* TokenBucket::new at clock value n
TokenBucketNew(max, refill, n) ==
  [max_tokens |-> max, tokens |-> max, refill_time |-> refill, last_refill |-> n]

VARIABLES
  now,        \* Instant::now(), seconds since the limiter was constructed
  tiers,      \* RateLimiter.tiers: Tier -> TokenBucket
  mutex,      \* owner of the tokio Mutex around tiers, 0 when free
  tier,       \* the tier the call sites of this behaviour are tagged with
  pc,         \* position of each caller
  fn,         \* the entry point each caller used: "acquire" or "wait"
  took,       \* the value bucket.take() returned to the caller
  ret,        \* the Duration acquire returned to the caller
  wake,       \* deadline of the caller's tokio::time::sleep
  completed,  \* number of acquire calls that have returned, per tier
  zeroRet     \* number of acquire calls that returned a zero Duration, per tier

limVars == <<now, tiers, mutex, tier, pc, fn, took, ret, wake, completed, zeroRet>>

RefillNoCap(b, n) ==
  LET elapsed == n - b.last_refill IN
  IF elapsed >= b.refill_time
  THEN [b EXCEPT !.tokens = b.tokens + (elapsed \div b.refill_time),
                 !.last_refill = n]
  ELSE b

RefillKeepsLastRefill(b, n) ==
  LET elapsed == n - b.last_refill IN
  IF elapsed >= b.refill_time
  THEN LET refills == elapsed \div b.refill_time
           new_tokens == b.tokens + refills
       IN [b EXCEPT !.tokens = Min(new_tokens, b.max_tokens)]
  ELSE b

\* TokenBucket::refill with the clock reading n.  refills is the f64 quotient
\* cast to u32, the floor for the non-negative quotients of the model; the
\* u32 sum tokens + refills stays below 2^32 for every elapsed time up to
\* (2^32 - 21) refill periods, far beyond MaxTime.
Refill(b, n) ==
  LET elapsed == n - b.last_refill IN
  IF elapsed >= b.refill_time
  THEN LET refills == elapsed \div b.refill_time
           new_tokens == b.tokens + refills
       IN [b EXCEPT !.tokens = Min(new_tokens, b.max_tokens), !.last_refill = n]
  ELSE b


InitLimiterNoTier4 ==
  /\ now = 0
  /\ tiers = [t \in Tier \ {"Tier4"} |-> TokenBucketNew(TierMaxTokens(t), TierRefillTime(t), 0)]
  /\ mutex = 0
  /\ tier \in Tier
  /\ pc = [c \in Callers |-> "idle"]
  /\ fn = [c \in Callers |-> "none"]
  /\ took = [c \in Callers |-> FALSE]
  /\ ret = [c \in Callers |-> 0]
  /\ wake = [c \in Callers |-> 0]
  /\ completed = [t \in Tier |-> 0]
  /\ zeroRet = [t \in Tier |-> 0]

\* RateLimiter::new, and the callers before their first call
InitLimiter ==
  /\ now = 0
  /\ tiers = [t \in Tier |-> TokenBucketNew(TierMaxTokens(t), TierRefillTime(t), 0)]
  /\ mutex = 0
  /\ tier \in Tier
  /\ pc = [c \in Callers |-> "idle"]
  /\ fn = [c \in Callers |-> "none"]
  /\ took = [c \in Callers |-> FALSE]
  /\ ret = [c \in Callers |-> 0]
  /\ wake = [c \in Callers |-> 0]
  /\ completed = [t \in Tier |-> 0]
  /\ zeroRet = [t \in Tier |-> 0]

InFlight == {c \in Callers : pc[c] \in {"lock", "take", "tunt_refill", "tunt_elapsed"}}

\* a task calls limiter.acquire(tier) or limiter.wait(tier)
Call(c, f) ==
  /\ pc[c] = "idle"
  /\ completed[tier] + Cardinality(InFlight) < MaxCalls
  /\ pc' = [pc EXCEPT ![c] = "lock"]
  /\ fn' = [fn EXCEPT ![c] = f]
  /\ took' = [took EXCEPT ![c] = FALSE]
  /\ ret' = [ret EXCEPT ![c] = 0]
  /\ UNCHANGED <<now, tiers, mutex, tier, wake, completed, zeroRet>>

MutexLockUnguarded(c) ==
  /\ pc[c] = "lock"
  /\ mutex' = c
  /\ pc' = [pc EXCEPT ![c] = "take"]
  /\ UNCHANGED <<now, tiers, tier, fn, took, ret, wake, completed, zeroRet>>

\* acquire: self.tiers.lock().await
MutexLock(c) ==
  /\ pc[c] = "lock"
  /\ mutex = 0
  /\ mutex' = c
  /\ pc' = [pc EXCEPT ![c] = "take"]
  /\ UNCHANGED <<now, tiers, tier, fn, took, ret, wake, completed, zeroRet>>

AcquireReturnKeepGuard(c, d) ==
  /\ ret' = [ret EXCEPT ![c] = d]
  /\ mutex' = mutex
  /\ pc' = [pc EXCEPT ![c] = "ret"]
  /\ completed' = [completed EXCEPT ![tier] = @ + 1]
  /\ zeroRet' = [zeroRet EXCEPT ![tier] = IF d = 0 THEN @ + 1 ELSE @]

\* acquire returns d to its caller; the MutexGuard is dropped on return
AcquireReturn(c, d) ==
  /\ ret' = [ret EXCEPT ![c] = d]
  /\ mutex' = 0
  /\ pc' = [pc EXCEPT ![c] = "ret"]
  /\ completed' = [completed EXCEPT ![tier] = @ + 1]
  /\ zeroRet' = [zeroRet EXCEPT ![tier] = IF d = 0 THEN @ + 1 ELSE @]

TakeNoDecrement(c) ==
  /\ pc[c] = "take"
  /\ mutex = c
  /\ IF tier \notin DOMAIN tiers
     THEN /\ pc' = [pc EXCEPT ![c] = "panic"]
          /\ mutex' = 0
          /\ UNCHANGED <<tiers, took, ret, completed, zeroRet>>
     ELSE LET b == Refill(tiers[tier], now) IN
          IF b.tokens > 0
          THEN /\ tiers' = [tiers EXCEPT ![tier] = b]
               /\ took' = [took EXCEPT ![c] = TRUE]
               /\ AcquireReturn(c, 0)
          ELSE /\ tiers' = [tiers EXCEPT ![tier] = b]
               /\ pc' = [pc EXCEPT ![c] = "tunt_refill"]
               /\ UNCHANGED <<took, ret, mutex, completed, zeroRet>>
  /\ UNCHANGED <<now, tier, fn, wake>>

TakeReserved(c) ==
  /\ pc[c] = "take"
  /\ mutex = c
  /\ IF tier \notin DOMAIN tiers
     THEN /\ pc' = [pc EXCEPT ![c] = "panic"]
          /\ mutex' = 0
          /\ UNCHANGED <<tiers, took, ret, completed, zeroRet>>
     ELSE LET b == Refill(tiers[tier], now)
              reserved == \E w \in Callers \ {c} : pc[w] = "sleep" /\ ret[w] > 0
          IN
          IF b.tokens > 0 /\ ~reserved
          THEN /\ tiers' = [tiers EXCEPT ![tier] = [b EXCEPT !.tokens = b.tokens - 1]]
               /\ took' = [took EXCEPT ![c] = TRUE]
               /\ AcquireReturn(c, 0)
          ELSE /\ tiers' = [tiers EXCEPT ![tier] = b]
               /\ pc' = [pc EXCEPT ![c] = "tunt_refill"]
               /\ UNCHANGED <<took, ret, mutex, completed, zeroRet>>
  /\ UNCHANGED <<now, tier, fn, wake>>

\* acquire: tiers.get_mut(&tier).unwrap(), which panics (the guard being
\* dropped as the task unwinds) when the map has no bucket for the tier, then
\* bucket.take(), i.e. refill() and the decrement, under the lock
Take(c) ==
  /\ pc[c] = "take"
  /\ mutex = c
  /\ IF tier \notin DOMAIN tiers
     THEN /\ pc' = [pc EXCEPT ![c] = "panic"]
          /\ mutex' = 0
          /\ UNCHANGED <<tiers, took, ret, completed, zeroRet>>
     ELSE LET b == Refill(tiers[tier], now) IN
          IF b.tokens > 0
          THEN /\ tiers' = [tiers EXCEPT ![tier] = [b EXCEPT !.tokens = b.tokens - 1]]
               /\ took' = [took EXCEPT ![c] = TRUE]
               /\ AcquireReturn(c, 0)
          ELSE /\ tiers' = [tiers EXCEPT ![tier] = b]
               /\ pc' = [pc EXCEPT ![c] = "tunt_refill"]
               /\ UNCHANGED <<took, ret, mutex, completed, zeroRet>>
  /\ UNCHANGED <<now, tier, fn, wake>>

\* time_until_next_token: self.refill() and the test of tokens
TimeUntilNextTokenRefill(c) ==
  /\ pc[c] = "tunt_refill"
  /\ mutex = c
  /\ LET b == Refill(tiers[tier], now) IN
     /\ tiers' = [tiers EXCEPT ![tier] = b]
     /\ IF b.tokens > 0
        THEN AcquireReturn(c, 0)
        ELSE /\ pc' = [pc EXCEPT ![c] = "tunt_elapsed"]
             /\ UNCHANGED <<ret, mutex, completed, zeroRet>>
  /\ UNCHANGED <<now, tier, fn, took, wake>>

RemainingNoFloor(b, n) == 2 * b.refill_time - (n - b.last_refill)

\* time_until_next_token: the else branch, with the clock reading n
Remaining(b, n) ==
  LET elapsed == n - b.last_refill IN
  IF elapsed >= b.refill_time THEN 0 ELSE b.refill_time - elapsed

\* time_until_next_token: the second Instant::now() and the returned Duration
TimeUntilNextTokenElapsed(c) ==
  /\ pc[c] = "tunt_elapsed"
  /\ mutex = c
  /\ AcquireReturn(c, Remaining(tiers[tier], now))
  /\ UNCHANGED <<now, tiers, tier, fn, took, wake>>

\* the caller of acquire has its Duration
AcquireDone(c) ==
  /\ pc[c] = "ret"
  /\ fn[c] = "acquire"
  /\ pc' = [pc EXCEPT ![c] = "idle"]
  /\ fn' = [fn EXCEPT ![c] = "none"]
  /\ took' = [took EXCEPT ![c] = FALSE]
  /\ ret' = [ret EXCEPT ![c] = 0]
  /\ UNCHANGED <<now, tiers, mutex, tier, wake, completed, zeroRet>>

\* wait: wait_time is zero, wait returns
WaitNoSleep(c) ==
  /\ pc[c] = "ret"
  /\ fn[c] = "wait"
  /\ ret[c] = 0
  /\ pc' = [pc EXCEPT ![c] = "idle"]
  /\ fn' = [fn EXCEPT ![c] = "none"]
  /\ took' = [took EXCEPT ![c] = FALSE]
  /\ UNCHANGED <<now, tiers, mutex, tier, ret, wake, completed, zeroRet>>

\* wait: wait_time > 0, tokio::time::sleep(wait_time) begins
WaitSleep(c) ==
  /\ pc[c] = "ret"
  /\ fn[c] = "wait"
  /\ ret[c] > 0
  /\ pc' = [pc EXCEPT ![c] = "sleep"]
  /\ wake' = [wake EXCEPT ![c] = now + ret[c]]
  /\ UNCHANGED <<now, tiers, mutex, tier, fn, took, ret, completed, zeroRet>>

WaitWakeReacquire(c) ==
  /\ pc[c] = "sleep"
  /\ now >= wake[c]
  /\ pc' = [pc EXCEPT ![c] = "lock"]
  /\ UNCHANGED <<now, tiers, mutex, tier, fn, took, ret, wake, completed, zeroRet>>

\* wait: the sleep is over, wait returns
WaitWake(c) ==
  /\ pc[c] = "sleep"
  /\ now >= wake[c]
  /\ pc' = [pc EXCEPT ![c] = "idle"]
  /\ fn' = [fn EXCEPT ![c] = "none"]
  /\ took' = [took EXCEPT ![c] = FALSE]
  /\ ret' = [ret EXCEPT ![c] = 0]
  /\ wake' = [wake EXCEPT ![c] = 0]
  /\ UNCHANGED <<now, tiers, mutex, tier, completed, zeroRet>>

\* the clock advances
Tick ==
  /\ now + Quantum <= MaxTime
  /\ now' = now + Quantum
  /\ UNCHANGED <<tiers, mutex, tier, pc, fn, took, ret, wake, completed, zeroRet>>

NextLimiter ==
  \/ \E c \in Callers : Call(c, "acquire")
  \/ \E c \in Callers : Call(c, "wait")
  \/ \E c \in Callers : MutexLock(c)
  \/ \E c \in Callers : Take(c)
  \/ \E c \in Callers : TimeUntilNextTokenRefill(c)
  \/ \E c \in Callers : TimeUntilNextTokenElapsed(c)
  \/ \E c \in Callers : AcquireDone(c)
  \/ \E c \in Callers : WaitNoSleep(c)
  \/ \E c \in Callers : WaitSleep(c)
  \/ \E c \in Callers : WaitWake(c)
  \/ Tick

\* ------------------------------------------------------------ REST dispatch
NumTasks == 2        \* concurrent tasks issuing REST calls

Tasks == 1..NumTasks

\* the endpoint methods of PublicApi
PublicEndpoints ==
  {"get_server_time", "get_assets", "get_asset_pairs", "get_ticker",
   "get_ohlc", "get_orderbook", "get_trades"}

\* the endpoint methods of PrivateApi, all of which go through private_request
PrivateEndpoints ==
  {"get_balance", "get_trade_balance", "get_open_orders", "get_closed_orders",
   "query_orders", "get_trades_history", "query_trades", "get_ledgers",
   "add_order", "cancel_order", "cancel_all_orders"}

VARIABLES
  api_key,     \* Config.api_key: "None" or "Some"
  api_secret,  \* Config.api_secret: "None" or "Some"
  restPc,      \* position of each task inside an endpoint method
  restOp,      \* the endpoint method the task is in
  restLog,     \* the collaborators the method has called so far, in order
  restRes      \* what the method returned: "Ok", "Auth", "Http", "Api"

restVars == <<api_key, api_secret, restPc, restOp, restLog, restRes>>

InitDispatch ==
  /\ api_key \in {"None", "Some"}
  /\ api_secret \in {"None", "Some"}
  /\ restPc = [r \in Tasks |-> "idle"]
  /\ restOp = [r \in Tasks |-> "none"]
  /\ restLog = [r \in Tasks |-> <<>>]
  /\ restRes = [r \in Tasks |-> "none"]

\* Config::default, no REST call in progress
QuietDispatch ==
  /\ api_key = "None"
  /\ api_secret = "None"
  /\ restPc = [r \in Tasks |-> "idle"]
  /\ restOp = [r \in Tasks |-> "none"]
  /\ restLog = [r \in Tasks |-> <<>>]
  /\ restRes = [r \in Tasks |-> "none"]

\* a PublicApi endpoint method up to its request: the URL is built
PublicCall(r, ep) ==
  /\ restPc[r] = "idle"
  /\ restPc' = [restPc EXCEPT ![r] = "send"]
  /\ restOp' = [restOp EXCEPT ![r] = ep]
  /\ restLog' = [restLog EXCEPT ![r] = <<"build_url">>]
  /\ restRes' = [restRes EXCEPT ![r] = "none"]
  /\ UNCHANGED <<api_key, api_secret>>

\* private_request up to the nonce: key and secret are checked first
PrivateRequest(r, ep) ==
  /\ restPc[r] = "idle"
  /\ restOp' = [restOp EXCEPT ![r] = ep]
  /\ IF api_key = "None" \/ api_secret = "None"
     THEN /\ restPc' = [restPc EXCEPT ![r] = "done"]
          /\ restLog' = [restLog EXCEPT ![r] = <<>>]
          /\ restRes' = [restRes EXCEPT ![r] = "Auth"]
     ELSE /\ restPc' = [restPc EXCEPT ![r] = "sign"]
          /\ restLog' = [restLog EXCEPT ![r] = <<"generate_nonce">>]
          /\ restRes' = [restRes EXCEPT ![r] = "none"]
  /\ UNCHANGED <<api_key, api_secret>>

\* private_request: sign_message, which fails on a secret that is not base64
PrivateSign(r, ok) ==
  /\ restPc[r] = "sign"
  /\ restLog' = [restLog EXCEPT ![r] = Append(@, "sign_message")]
  /\ IF ok
     THEN /\ restPc' = [restPc EXCEPT ![r] = "send"]
          /\ UNCHANGED restRes
     ELSE /\ restPc' = [restPc EXCEPT ![r] = "done"]
          /\ restRes' = [restRes EXCEPT ![r] = "Auth"]
  /\ UNCHANGED <<api_key, api_secret, restOp>>

\* http_client().get(..).send() / .post(..).send(): the request goes out
HttpSend(r) ==
  /\ restPc[r] = "send"
  /\ restPc' = [restPc EXCEPT ![r] = "await"]
  /\ restLog' = [restLog EXCEPT ![r] = Append(@, "http_send")]
  /\ UNCHANGED <<api_key, api_secret, restOp, restRes>>

\* the response: a transport error or a body that does not deserialize
\* ("Http"), a non-empty error list or a missing result ("Api"), or Ok
HttpResponse(r, res) ==
  /\ restPc[r] = "await"
  /\ restPc' = [restPc EXCEPT ![r] = "done"]
  /\ restRes' = [restRes EXCEPT ![r] = res]
  /\ UNCHANGED <<api_key, api_secret, restOp, restLog>>

\* the endpoint method has returned to the task
RestReturn(r) ==
  /\ restPc[r] = "done"
  /\ restPc' = [restPc EXCEPT ![r] = "idle"]
  /\ restOp' = [restOp EXCEPT ![r] = "none"]
  /\ restLog' = [restLog EXCEPT ![r] = <<>>]
  /\ restRes' = [restRes EXCEPT ![r] = "none"]
  /\ UNCHANGED <<api_key, api_secret>>

NextDispatch ==
  \/ \E r \in Tasks, ep \in PublicEndpoints : PublicCall(r, ep)
  \/ \E r \in Tasks, ep \in PrivateEndpoints : PrivateRequest(r, ep)
  \/ \E r \in Tasks, ok \in BOOLEAN : PrivateSign(r, ok)
  \/ \E r \in Tasks : HttpSend(r)
  \/ \E r \in Tasks, res \in {"Ok", "Http", "Api"} : HttpResponse(r, res)
  \/ \E r \in Tasks : RestReturn(r)

\* -------------------------------------------------------- streaming session
MaxEvents == 3       \* connect() calls, control operations and items read
                     \* from the transport, together, in one behaviour
FloodSlack == 2      \* events a flooding behaviour has beyond the capacity

\* mpsc::channel::<Message>(100) and mpsc::channel::<Result<..>>(100)
ChannelCapacity == 100

Conns == 1..MaxEvents

\* the control operations of WebSocketApi and the frame each enqueues
Ops == {"subscribe", "unsubscribe", "ping", "close"}

\* what read.next() can yield: the Message variants, a transport error, or
\* the end of the stream
WireFrames == {"text", "garbage", "binary", "ping", "pong", "frame", "close"}
WireItems == WireFrames \cup {"error", "eof"}

\* the payloads a ping frame of the peer can carry
Payloads == {"a", "b"}

VARIABLES
  urlValid,   \* whether Config.ws_url parses as a URL
  limit,      \* how many events (see Events) this behaviour may take
  api,        \* whether the caller still owns the WebSocketApi value
  tx,         \* WebSocketApi.tx: 0 for None, g for the Sender of connection g
  nconn,      \* connect() calls made so far
  nops,       \* control operations called so far
  lastCall,   \* the last control operation, its result, the tx it found
  rx,         \* receiver of the outbound channel: "none", "live", "dropped"
  out,        \* contents of the outbound channel
  writer,     \* writer pump: "none", "recv", "lock", "send", "exit"
  wmsg,       \* the message the writer pump took from the channel
  wlock,      \* owner of the Mutex around the write sink: "free", "writer", "reader"
  sink,       \* the frames written to the transport, in order
  reader,     \* reader pump: "none", "next", "push", "ponglock", "pongsend", "exit"
  rmsg,       \* the result the reader pump is pushing
  pdata,      \* the payload of the ping the reader pump is answering
  nread,      \* items read.next() has yielded so far
  wire,       \* the items read.next() has yielded so far, in order
  closeAt,    \* position on the wire of the close frame read, 0 if none
  failed,     \* the pumps that ended on a transport error
  inb,        \* contents of the inbound channel
  handle,     \* the Receiver connect returned: "none", "held", "dropped"
  got         \* the items the consumer has received, in order

sessVars == <<urlValid, limit, api, tx, nconn, nops, lastCall, rx, out, writer,
              wmsg, wlock, sink, reader, rmsg, pdata, nread, wire, closeAt,
              failed, inb, handle, got>>

NoMsg == [idx |-> 0, res |-> "none"]

\* a frame of the outbound channel: what it is, the number of the control
\* operation that enqueued it (0 for the reader pump's pongs), its payload
NoFrame == [op |-> "none", seq |-> 0, data |-> ""]

RECURSIVE SumUpTo(_, _)
SumUpTo(f, n) == IF n = 0 THEN 0 ELSE f[n] + SumUpTo(f, n - 1)

\* connect() calls, control operations and transport reads so far
Events == nconn + nops + SumUpTo(nread, MaxEvents)

\* WebSocketApi::new
InitSessionState ==
  /\ api = TRUE
  /\ tx = 0
  /\ nconn = 0
  /\ nops = 0
  /\ lastCall = [op |-> "none", res |-> "none", conn |-> 0]
  /\ rx = [g \in Conns |-> "none"]
  /\ out = [g \in Conns |-> <<>>]
  /\ writer = [g \in Conns |-> "none"]
  /\ wmsg = [g \in Conns |-> NoFrame]
  /\ wlock = [g \in Conns |-> "free"]
  /\ sink = [g \in Conns |-> <<>>]
  /\ reader = [g \in Conns |-> "none"]
  /\ rmsg = [g \in Conns |-> NoMsg]
  /\ pdata = [g \in Conns |-> ""]
  /\ nread = [g \in Conns |-> 0]
  /\ wire = [g \in Conns |-> <<>>]
  /\ closeAt = [g \in Conns |-> 0]
  /\ failed = [g \in Conns |-> {}]
  /\ inb = [g \in Conns |-> <<>>]
  /\ handle = [g \in Conns |-> "none"]
  /\ got = [g \in Conns |-> <<>>]

InitSession == urlValid \in BOOLEAN /\ limit = MaxEvents /\ InitSessionState

QuietSession == urlValid = TRUE /\ limit = MaxEvents /\ InitSessionState

\* a session whose peer or caller floods one of the two channels
InitFlood ==
  urlValid = TRUE /\ limit = ChannelCapacity + FloodSlack /\ InitSessionState

\* a session on which the caller calls connect() a second time
InitReconnect ==
  urlValid = TRUE /\ limit = MaxEvents + 1 /\ InitSessionState


ConnectKeepsSender(ok) ==
  /\ api
  /\ Events < limit
  /\ LET g == nconn + 1 IN
     /\ nconn' = g
     /\ tx' = IF tx = 0 THEN g ELSE tx
     /\ IF urlValid /\ ok
        THEN /\ rx' = [rx EXCEPT ![g] = "live"]
             /\ writer' = [writer EXCEPT ![g] = "recv"]
             /\ reader' = [reader EXCEPT ![g] = "next"]
             /\ handle' = [handle EXCEPT ![g] = "held"]
        ELSE /\ rx' = [rx EXCEPT ![g] = "dropped"]
             /\ UNCHANGED <<writer, reader, handle>>
  /\ UNCHANGED <<urlValid, limit, api, nops, lastCall, out, wmsg, wlock,
                 sink, rmsg, pdata, nread, wire, closeAt, failed, inb, got>>

\* connect(): the channels are created and self.tx is stored first; then the
\* URL is parsed and the transport connected, either of which can fail and
\* return early, dropping rx and both ends of the inbound channel; otherwise
\* the two pumps are spawned and message_rx is returned.
Connect(ok) ==
  /\ api
  /\ Events < limit
  /\ LET g == nconn + 1 IN
     /\ nconn' = g
     /\ tx' = g
     /\ IF urlValid /\ ok
        THEN /\ rx' = [rx EXCEPT ![g] = "live"]
             /\ writer' = [writer EXCEPT ![g] = "recv"]
             /\ reader' = [reader EXCEPT ![g] = "next"]
             /\ handle' = [handle EXCEPT ![g] = "held"]
        ELSE /\ rx' = [rx EXCEPT ![g] = "dropped"]
             /\ UNCHANGED <<writer, reader, handle>>
  /\ UNCHANGED <<urlValid, limit, api, nops, lastCall, out, wmsg, wlock,
                 sink, rmsg, pdata, nread, wire, closeAt, failed, inb, got>>

ApiCallNoneOk(op) ==
  /\ api
  /\ Events < limit
  /\ nops' = nops + 1
  /\ IF tx = 0
     THEN /\ lastCall' = [op |-> op, res |-> "Ok", conn |-> tx]
          /\ UNCHANGED out
     ELSE IF rx[tx] # "live"
     THEN /\ lastCall' = [op |-> op, res |-> "SendFailed", conn |-> tx]
          /\ UNCHANGED out
     ELSE /\ Len(out[tx]) < ChannelCapacity
          /\ out' = [out EXCEPT ![tx] =
                       Append(@, [op |-> op, seq |-> nops + 1, data |-> ""])]
          /\ lastCall' = [op |-> op, res |-> "Ok", conn |-> tx]
  /\ UNCHANGED <<urlValid, limit, api, tx, nconn, rx, writer, wmsg, wlock,
                 sink, reader, rmsg, pdata, nread, wire, closeAt, failed,
                 inb, handle, got>>

\* subscribe / unsubscribe / ping / close: with no Sender stored the call
\* returns the "Not connected" error; otherwise tx.send(frame).await, which
\* fails when the receiver is gone, waits while the channel is full and
\* enqueues otherwise. close() does nothing but enqueue its Close frame.
ApiCall(op) ==
  /\ api
  /\ Events < limit
  /\ nops' = nops + 1
  /\ IF tx = 0
     THEN /\ lastCall' = [op |-> op, res |-> "NotConnected", conn |-> tx]
          /\ UNCHANGED out
     ELSE IF rx[tx] # "live"
     THEN /\ lastCall' = [op |-> op, res |-> "SendFailed", conn |-> tx]
          /\ UNCHANGED out
     ELSE /\ Len(out[tx]) < ChannelCapacity
          /\ out' = [out EXCEPT ![tx] =
                       Append(@, [op |-> op, seq |-> nops + 1, data |-> ""])]
          /\ lastCall' = [op |-> op, res |-> "Ok", conn |-> tx]
  /\ UNCHANGED <<urlValid, limit, api, tx, nconn, rx, writer, wmsg, wlock,
                 sink, reader, rmsg, pdata, nread, wire, closeAt, failed,
                 inb, handle, got>>

\* the caller drops the WebSocketApi value, and with it the Sender in self.tx
ApiDrop ==
  /\ api
  /\ api' = FALSE
  /\ UNCHANGED <<urlValid, limit, tx, nconn, nops, lastCall, rx, out, writer,
                 wmsg, wlock, sink, reader, rmsg, pdata, nread, wire,
                 closeAt, failed, inb, handle, got>>

WriterRecvLast(g) ==
  /\ writer[g] = "recv"
  /\ IF out[g] # <<>>
     THEN /\ wmsg' = [wmsg EXCEPT ![g] = out[g][Len(out[g])]]
          /\ out' = [out EXCEPT ![g] = SubSeq(@, 1, Len(@) - 1)]
          /\ writer' = [writer EXCEPT ![g] = "lock"]
          /\ UNCHANGED rx
     ELSE /\ tx # g \/ ~api
          /\ writer' = [writer EXCEPT ![g] = "exit"]
          /\ rx' = [rx EXCEPT ![g] = "dropped"]
          /\ UNCHANGED <<wmsg, out>>
  /\ UNCHANGED <<urlValid, limit, api, tx, nconn, nops, lastCall, wlock,
                 sink, reader, rmsg, pdata, nread, wire, closeAt, failed,
                 inb, handle, got>>

\* writer pump: rx.recv().await yields the next message, or None once the
\* channel is empty and its Sender has been dropped, which ends the pump
WriterRecv(g) ==
  /\ writer[g] = "recv"
  /\ IF out[g] # <<>>
     THEN /\ wmsg' = [wmsg EXCEPT ![g] = Head(out[g])]
          /\ out' = [out EXCEPT ![g] = Tail(@)]
          /\ writer' = [writer EXCEPT ![g] = "lock"]
          /\ UNCHANGED rx
     ELSE /\ tx # g \/ ~api
          /\ writer' = [writer EXCEPT ![g] = "exit"]
          /\ rx' = [rx EXCEPT ![g] = "dropped"]
          /\ UNCHANGED <<wmsg, out>>
  /\ UNCHANGED <<urlValid, limit, api, tx, nconn, nops, lastCall, wlock,
                 sink, reader, rmsg, pdata, nread, wire, closeAt, failed,
                 inb, handle, got>>

\* writer pump: write_clone.lock().await
WriterLock(g) ==
  /\ writer[g] = "lock"
  /\ wlock[g] = "free"
  /\ wlock' = [wlock EXCEPT ![g] = "writer"]
  /\ writer' = [writer EXCEPT ![g] = "send"]
  /\ UNCHANGED <<urlValid, limit, api, tx, nconn, nops, lastCall, rx, out,
                 wmsg, sink, reader, rmsg, pdata, nread, wire, closeAt,
                 failed, inb, handle, got>>

WriterSendKeepGuard(g, ok) ==
  /\ writer[g] = "send"
  /\ wmsg' = [wmsg EXCEPT ![g] = NoFrame]
  /\ IF ok
     THEN /\ sink' = [sink EXCEPT ![g] = Append(@, wmsg[g])]
          /\ writer' = [writer EXCEPT ![g] = "recv"]
          /\ UNCHANGED <<rx, out, failed>>
     ELSE /\ writer' = [writer EXCEPT ![g] = "exit"]
          /\ rx' = [rx EXCEPT ![g] = "dropped"]
          /\ out' = [out EXCEPT ![g] = <<>>]
          /\ failed' = [failed EXCEPT ![g] = @ \cup {"writer"}]
          /\ UNCHANGED sink
  /\ UNCHANGED <<urlValid, limit, api, tx, nconn, nops, lastCall, reader,
                 rmsg, pdata, nread, wire, closeAt, inb, handle, got, wlock>>

\* writer pump: write_lock.send(message).await; an error ends the pump and
\* drops rx with whatever is still queued; the guard is dropped either way
WriterSend(g, ok) ==
  /\ writer[g] = "send"
  /\ wlock' = [wlock EXCEPT ![g] = "free"]
  /\ wmsg' = [wmsg EXCEPT ![g] = NoFrame]
  /\ IF ok
     THEN /\ sink' = [sink EXCEPT ![g] = Append(@, wmsg[g])]
          /\ writer' = [writer EXCEPT ![g] = "recv"]
          /\ UNCHANGED <<rx, out, failed>>
     ELSE /\ writer' = [writer EXCEPT ![g] = "exit"]
          /\ rx' = [rx EXCEPT ![g] = "dropped"]
          /\ out' = [out EXCEPT ![g] = <<>>]
          /\ failed' = [failed EXCEPT ![g] = @ \cup {"writer"}]
          /\ UNCHANGED sink
  /\ UNCHANGED <<urlValid, limit, api, tx, nconn, nops, lastCall, reader,
                 rmsg, pdata, nread, wire, closeAt, inb, handle, got>>

\* the result the Text arm builds from the frame at position i: a typed
\* message when the text is JSON, the "Failed to parse message" error if not
Forward(f, i) == [idx |-> i, res |-> IF f = "text" THEN "Ok" ELSE "Err"]

ReaderNextNoBreak(g, f) ==
  /\ reader[g] = "next"
  /\ Events < limit
  /\ nread' = [nread EXCEPT ![g] = @ + 1]
  /\ \E p \in (IF f = "ping" THEN Payloads ELSE {""}) :
       /\ wire' = [wire EXCEPT ![g] = Append(@, [kind |-> f, data |-> p])]
       /\ pdata' = [pdata EXCEPT ![g] = IF f = "ping" THEN p ELSE @]
  /\ closeAt' = [closeAt EXCEPT ![g] = IF f = "close" THEN nread[g] + 1 ELSE @]
  /\ failed' = [failed EXCEPT ![g] = IF f = "error" THEN @ \cup {"reader"} ELSE @]
  /\ rmsg' = [rmsg EXCEPT ![g] =
                IF f \in {"text", "garbage"} THEN Forward(f, nread[g] + 1) ELSE @]
  /\ reader' = [reader EXCEPT ![g] =
                  CASE f \in {"text", "garbage"} -> "push"
                    [] f = "ping" -> "ponglock"
                    [] f \in {"binary", "pong", "frame", "close"} -> "next"
                    [] f \in {"error", "eof"} -> "exit"]
  /\ UNCHANGED <<urlValid, limit, api, tx, nconn, nops, lastCall, rx, out,
                 writer, wmsg, wlock, sink, inb, handle, got>>

\* reader pump: read.next().await and the match on what it yields
ReaderNext(g, f) ==
  /\ reader[g] = "next"
  /\ Events < limit
  /\ nread' = [nread EXCEPT ![g] = @ + 1]
  /\ \E p \in (IF f = "ping" THEN Payloads ELSE {""}) :
       /\ wire' = [wire EXCEPT ![g] = Append(@, [kind |-> f, data |-> p])]
       /\ pdata' = [pdata EXCEPT ![g] = IF f = "ping" THEN p ELSE @]
  /\ closeAt' = [closeAt EXCEPT ![g] = IF f = "close" THEN nread[g] + 1 ELSE @]
  /\ failed' = [failed EXCEPT ![g] = IF f = "error" THEN @ \cup {"reader"} ELSE @]
  /\ rmsg' = [rmsg EXCEPT ![g] =
                IF f \in {"text", "garbage"} THEN Forward(f, nread[g] + 1) ELSE @]
  /\ reader' = [reader EXCEPT ![g] =
                  CASE f \in {"text", "garbage"} -> "push"
                    [] f = "ping" -> "ponglock"
                    [] f \in {"binary", "pong", "frame"} -> "next"
                    [] f \in {"close", "error", "eof"} -> "exit"]
  /\ UNCHANGED <<urlValid, limit, api, tx, nconn, nops, lastCall, rx, out,
                 writer, wmsg, wlock, sink, inb, handle, got>>

ReaderPushLossy(g) ==
  /\ reader[g] = "push"
  /\ IF handle[g] = "dropped"
     THEN /\ reader' = [reader EXCEPT ![g] = "exit"]
          /\ UNCHANGED inb
     ELSE /\ inb' = [inb EXCEPT ![g] =
                       IF Len(@) < ChannelCapacity THEN Append(@, rmsg[g]) ELSE @]
          /\ reader' = [reader EXCEPT ![g] = "next"]
  /\ rmsg' = [rmsg EXCEPT ![g] = NoMsg]
  /\ UNCHANGED <<urlValid, limit, api, tx, nconn, nops, lastCall, rx, out,
                 writer, wmsg, wlock, sink, pdata, nread, wire, closeAt,
                 failed, handle, got>>

\* reader pump: message_tx.send(result).await, which fails when the Receiver
\* has been dropped (the pump ends), waits while the channel is full and
\* enqueues otherwise
ReaderPush(g) ==
  /\ reader[g] = "push"
  /\ IF handle[g] = "dropped"
     THEN /\ reader' = [reader EXCEPT ![g] = "exit"]
          /\ UNCHANGED inb
     ELSE /\ Len(inb[g]) < ChannelCapacity
          /\ inb' = [inb EXCEPT ![g] = Append(@, rmsg[g])]
          /\ reader' = [reader EXCEPT ![g] = "next"]
  /\ rmsg' = [rmsg EXCEPT ![g] = NoMsg]
  /\ UNCHANGED <<urlValid, limit, api, tx, nconn, nops, lastCall, rx, out,
                 writer, wmsg, wlock, sink, pdata, nread, wire, closeAt,
                 failed, handle, got>>

\* reader pump, Ping arm: write.lock().await
ReaderPongLock(g) ==
  /\ reader[g] = "ponglock"
  /\ wlock[g] = "free"
  /\ wlock' = [wlock EXCEPT ![g] = "reader"]
  /\ reader' = [reader EXCEPT ![g] = "pongsend"]
  /\ UNCHANGED <<urlValid, limit, api, tx, nconn, nops, lastCall, rx, out,
                 writer, wmsg, sink, rmsg, pdata, nread, wire, closeAt,
                 failed, inb, handle, got>>

ReaderPongSendEmpty(g, ok) ==
  /\ reader[g] = "pongsend"
  /\ wlock' = [wlock EXCEPT ![g] = "free"]
  /\ pdata' = [pdata EXCEPT ![g] = ""]
  /\ IF ok
     THEN /\ sink' = [sink EXCEPT ![g] =
                        Append(@, [op |-> "pong", seq |-> 0, data |-> ""])]
          /\ reader' = [reader EXCEPT ![g] = "next"]
          /\ UNCHANGED failed
     ELSE /\ reader' = [reader EXCEPT ![g] = "exit"]
          /\ failed' = [failed EXCEPT ![g] = @ \cup {"reader"}]
          /\ UNCHANGED sink
  /\ UNCHANGED <<urlValid, limit, api, tx, nconn, nops, lastCall, rx, out,
                 writer, wmsg, rmsg, nread, wire, closeAt, inb, handle, got>>

\* reader pump, Ping arm: write_lock.send(Message::Pong(data)).await
ReaderPongSend(g, ok) ==
  /\ reader[g] = "pongsend"
  /\ wlock' = [wlock EXCEPT ![g] = "free"]
  /\ pdata' = [pdata EXCEPT ![g] = ""]
  /\ IF ok
     THEN /\ sink' = [sink EXCEPT ![g] =
                        Append(@, [op |-> "pong", seq |-> 0, data |-> pdata[g]])]
          /\ reader' = [reader EXCEPT ![g] = "next"]
          /\ UNCHANGED failed
     ELSE /\ reader' = [reader EXCEPT ![g] = "exit"]
          /\ failed' = [failed EXCEPT ![g] = @ \cup {"reader"}]
          /\ UNCHANGED sink
  /\ UNCHANGED <<urlValid, limit, api, tx, nconn, nops, lastCall, rx, out,
                 writer, wmsg, rmsg, nread, wire, closeAt, inb, handle, got>>

ConsumerRecvLast(g) ==
  /\ handle[g] = "held"
  /\ inb[g] # <<>>
  /\ got' = [got EXCEPT ![g] = Append(@, inb[g][Len(inb[g])])]
  /\ inb' = [inb EXCEPT ![g] = SubSeq(@, 1, Len(@) - 1)]
  /\ UNCHANGED <<urlValid, limit, api, tx, nconn, nops, lastCall, rx, out,
                 writer, wmsg, wlock, sink, reader, rmsg, pdata, nread, wire,
                 closeAt, failed, handle>>

\* the consumer: message_rx.recv().await takes the next inbound item
ConsumerRecv(g) ==
  /\ handle[g] = "held"
  /\ inb[g] # <<>>
  /\ got' = [got EXCEPT ![g] = Append(@, Head(inb[g]))]
  /\ inb' = [inb EXCEPT ![g] = Tail(@)]
  /\ UNCHANGED <<urlValid, limit, api, tx, nconn, nops, lastCall, rx, out,
                 writer, wmsg, wlock, sink, reader, rmsg, pdata, nread, wire,
                 closeAt, failed, handle>>

\* the consumer drops message_rx, discarding what is still queued
ConsumerDrop(g) ==
  /\ handle[g] = "held"
  /\ handle' = [handle EXCEPT ![g] = "dropped"]
  /\ inb' = [inb EXCEPT ![g] = <<>>]
  /\ UNCHANGED <<urlValid, limit, api, tx, nconn, nops, lastCall, rx, out,
                 writer, wmsg, wlock, sink, reader, rmsg, pdata, nread, wire,
                 closeAt, failed, got>>

NextSession ==
  \/ \E ok \in BOOLEAN : Connect(ok)
  \/ \E op \in Ops : ApiCall(op)
  \/ ApiDrop
  \/ \E g \in Conns : WriterRecv(g)
  \/ \E g \in Conns : WriterLock(g)
  \/ \E g \in Conns, ok \in BOOLEAN : WriterSend(g, ok)
  \/ \E g \in Conns, f \in WireItems : ReaderNext(g, f)
  \/ \E g \in Conns : ReaderPush(g)
  \/ \E g \in Conns : ReaderPongLock(g)
  \/ \E g \in Conns, ok \in BOOLEAN : ReaderPongSend(g, ok)
  \/ \E g \in Conns : ConsumerRecv(g)
  \/ \E g \in Conns : ConsumerDrop(g)

\* one connection on which either the peer sends text frames only or the
\* caller subscribes only, the pumps and the consumer running as they may
NextFlood ==
  \/ nconn = 0 /\ Connect(TRUE)
  \/ nread[1] = 0 /\ ApiCall("subscribe")
  \/ nops = 0 /\ ReaderNext(1, "text")
  \/ WriterRecv(1)
  \/ WriterLock(1)
  \/ WriterSend(1, TRUE)
  \/ ReaderPush(1)
  \/ ConsumerRecv(1)

\* ------------------------------------------------ inbound text classification
\* A text frame, as far as serde looks at it: whether it is JSON at all and
\* what its top-level value is; for an object, which of the members the
\* WebSocketMessage variants name it has, and with what kind of value.
Absent == "<absent>"
Str == "<string>"
Num == "<number>"
Sub == "<subscription>"    \* an object that deserializes as WebSocketSubscription
Other == "<other>"         \* a value that is neither of the kinds asked for

\* WebSocketMessageType: the names serde accepts for its variants
MessageTypeNames ==
  {"subscribe", "unsubscribe", "ping", "pong", "heartbeat", "systemStatus",
   "subscriptionStatus"}

\* the values of "event" considered: the type names, and one other string
EventStrings == MessageTypeNames \cup {"error"}

MaxElems == 4        \* elements of a top-level array

Elems == UNION {[1..n -> {Num, Str}] : n \in 0..MaxElems}

NoMembers ==
  [event |-> Absent, connectionID |-> Absent, status |-> Absent,
   version |-> Absent, errorMessage |-> Absent, subscription |-> Absent,
   pair |-> Absent, reqid |-> Absent, channelID |-> Absent,
   channelName |-> Absent]

Objects ==
  [shape : {"object"}, elems : {<<>>},
   m : [event : {Absent, Num} \cup EventStrings,
        connectionID : {Absent, Num, Str},
        status : {Absent, Str},
        version : {Absent, Str},
        errorMessage : {Absent, Str},
        subscription : {Absent, Sub, Other},
        pair : {Absent, Str},
        reqid : {Absent, Num},
        channelID : {Absent, Num},
        channelName : {Absent, Str}]]

Arrays == [shape : {"array"}, elems : Elems, m : {NoMembers}]

\* a JSON string, number, boolean or null; a text that is not JSON
Scalar == [shape |-> "scalar", elems |-> <<>>, m |-> NoMembers]
Invalid == [shape |-> "invalid", elems |-> <<>>, m |-> NoMembers]

Texts == Objects \cup Arrays \cup {Scalar, Invalid}

VARIABLES
  frame,      \* the text of the frame the Text arm is given
  variant,    \* what the Text arm made of it, "none" before it ran
  fields      \* the fields of the message it built

clsVars == <<frame, variant, fields>>

\* a member of type String, u64, Option<String>, Option<u64>, and the event
\* member of type WebSocketMessageType
IsString(v) == v = Str \/ v \in EventStrings
IsU64(v) == v = Num
IsOptString(v) == v = Absent \/ IsString(v)
IsOptU64(v) == v = Absent \/ IsU64(v)
IsMessageType(v) == v \in MessageTypeNames

\* the variants of the untagged enum WebSocketMessage, in declaration order
Variants ==
  <<"SystemStatus", "SubscriptionStatus", "Heartbeat", "Ping", "Pong", "Error",
    "DataArray", "Generic">>

\* whether the JSON value t deserializes as variant v: a struct variant takes
\* an object that has every required member with a value of the member's
\* type, Option members may be missing, members it does not name are ignored
Matches(v, t) ==
  CASE v = "SystemStatus" ->
         /\ t.shape = "object"
         /\ IsString(t.m.event) /\ IsU64(t.m.connectionID)
         /\ IsString(t.m.status) /\ IsString(t.m.version)
    [] v = "SubscriptionStatus" ->
         /\ t.shape = "object"
         /\ IsOptU64(t.m.channelID) /\ IsOptString(t.m.channelName)
         /\ IsString(t.m.event) /\ IsOptString(t.m.pair)
         /\ IsString(t.m.status) /\ t.m.subscription = Sub
    [] v = "Heartbeat" ->
         t.shape = "object" /\ IsMessageType(t.m.event)
    [] v \in {"Ping", "Pong"} ->
         t.shape = "object" /\ IsMessageType(t.m.event) /\ IsOptU64(t.m.reqid)
    [] v = "Error" ->
         /\ t.shape = "object"
         /\ IsString(t.m.event) /\ IsString(t.m.errorMessage)
         /\ IsString(t.m.status)
         /\ t.m.subscription \in {Absent, Sub} /\ IsOptString(t.m.pair)
    [] v = "DataArray" -> t.shape = "array"
    [] v = "Generic" -> TRUE

\* serde_json::from_str::<WebSocketMessage>: "Err" for a text that is not
\* JSON, else the first variant, in declaration order, that the value matches
FromStr(t) ==
  IF t.shape = "invalid"
  THEN "Err"
  ELSE LET i == CHOOSE k \in 1..Len(Variants) :
                  /\ Matches(Variants[k], t)
                  /\ \A j \in 1..(k - 1) : ~Matches(Variants[j], t)
       IN  Variants[i]

TextArmNoGeneric(t) ==
  IF FromStr(t) \notin {"Err", "Generic"} THEN FromStr(t)
  ELSE IF t.shape = "array" THEN "DataArray"
  ELSE "ParseError"

\* the Text arm of the reader pump: the typed message if from_str succeeds,
\* else an array, else any JSON value, else the parse error
TextArm(t) ==
  IF FromStr(t) # "Err" THEN FromStr(t)
  ELSE IF t.shape = "array" THEN "DataArray"
  ELSE IF t.shape # "invalid" THEN "Generic"
  ELSE "ParseError"

\* an Option field: None when the member is missing, else its value
None == "<none>"
Opt(v) == IF v = Absent THEN None ELSE v

StructFieldsSwapped(v, t) ==
  CASE v = "SystemStatus" ->
         [event |-> t.m.event, connection_id |-> t.m.connectionID,
          status |-> t.m.status, version |-> t.m.version]
    [] v = "SubscriptionStatus" ->
         [channel_id |-> Opt(t.m.channelID),
          channel_name |-> Opt(t.m.pair),
          event |-> t.m.event, pair |-> Opt(t.m.channelName),
          status |-> t.m.status, subscription |-> t.m.subscription]
    [] v = "Heartbeat" -> [event_type |-> t.m.event]
    [] v \in {"Ping", "Pong"} ->
         [event_type |-> t.m.event, req_id |-> Opt(t.m.reqid)]
    [] v = "Error" ->
         [event |-> t.m.event, error_message |-> t.m.errorMessage,
          status |-> t.m.status, subscription |-> Opt(t.m.subscription),
          pair |-> Opt(t.m.pair)]

\* the fields of struct variant v deserialized from the object t: each field
\* gets the value of the member it is renamed to
StructFields(v, t) ==
  CASE v = "SystemStatus" ->
         [event |-> t.m.event, connection_id |-> t.m.connectionID,
          status |-> t.m.status, version |-> t.m.version]
    [] v = "SubscriptionStatus" ->
         [channel_id |-> Opt(t.m.channelID),
          channel_name |-> Opt(t.m.channelName),
          event |-> t.m.event, pair |-> Opt(t.m.pair),
          status |-> t.m.status, subscription |-> t.m.subscription]
    [] v = "Heartbeat" -> [event_type |-> t.m.event]
    [] v \in {"Ping", "Pong"} ->
         [event_type |-> t.m.event, req_id |-> Opt(t.m.reqid)]
    [] v = "Error" ->
         [event |-> t.m.event, error_message |-> t.m.errorMessage,
          status |-> t.m.status, subscription |-> Opt(t.m.subscription),
          pair |-> Opt(t.m.pair)]

ArrayElemsReversed(t) ==
  [i \in 1..Len(t.elems) |-> t.elems[Len(t.elems) + 1 - i]]

\* Vec<Value> deserialized from the array t: one Value per element, in order
ArrayElems(t) == [i \in 1..Len(t.elems) |-> t.elems[i]]

\* what the message of variant v built from the text t holds
Fields(v, t) ==
  CASE v = "DataArray" -> [elems |-> ArrayElems(t)]
    [] v = "Generic" -> [value |-> t]
    [] v = "ParseError" -> [error |-> "Failed to parse message"]
    [] OTHER -> StructFields(v, t)

NoFields == [none |-> TRUE]

InitClassifier == frame \in Texts /\ variant = "none" /\ fields = NoFields

QuietClassifier == frame = Invalid /\ variant = "none" /\ fields = NoFields

\* the reader pump classifies the text frame it read
ClassifyFrame ==
  /\ variant = "none"
  /\ variant' = TextArm(frame)
  /\ fields' = Fields(TextArm(frame), frame)
  /\ UNCHANGED frame

NextClassifier == ClassifyFrame

\* the reader pump of connection 1 reads a text frame holding the text and
\* classifies it; the result is an Err item exactly for the parse error
ReadTextFrame ==
  /\ ClassifyFrame
  /\ ReaderNext(1, IF TextArm(frame) = "ParseError" THEN "garbage" ELSE "text")

\* one connection whose peer sends one text frame
NextTextFrame ==
  \/ nconn = 0 /\ Connect(TRUE) /\ UNCHANGED clsVars
  \/ ReadTextFrame
  \/ ReaderPush(1) /\ UNCHANGED clsVars
  \/ ConsumerRecv(1) /\ UNCHANGED clsVars

\* -------------------------------------------------------------------- nonce
\* The system clock in milliseconds since UNIX_EPOCH.  It follows real time
\* and can be set, forward or back, by whoever administers the host (NTP
\* step, settimeofday): SystemTime is not monotonic.
WallStart == 10      \* what the clock shows when the client starts
MaxReal == 4         \* milliseconds of real time explored
MaxStep == 2         \* largest step, and largest offset, of the clock
MaxNonces == 3       \* generate_nonce calls in one behaviour

VARIABLES
  wall,       \* SystemTime::now(), milliseconds since UNIX_EPOCH
  real,       \* milliseconds of real time since the client started
  nonces      \* the calls of generate_nonce: when made, what returned

nonceVars == <<wall, real, nonces>>

InitNonce == wall = WallStart /\ real = 0 /\ nonces = <<>>

QuietNonce == InitNonce

\* generate_nonce: SystemTime::now().duration_since(UNIX_EPOCH) in whole
\* milliseconds; the cast to u64 changes no value below 2^64
GenerateNonce ==
  /\ Len(nonces) < MaxNonces
  /\ wall >= 0
  /\ nonces' = Append(nonces, [at |-> real, nonce |-> wall])
  /\ UNCHANGED <<wall, real>>

\* a millisecond passes
ClockTick ==
  /\ real < MaxReal
  /\ real' = real + 1
  /\ wall' = wall + 1
  /\ UNCHANGED nonces

\* the system clock is set
ClockStep(d) ==
  /\ d # 0
  /\ wall + d >= 0
  /\ wall + d - (WallStart + real) \in (0 - MaxStep)..MaxStep
  /\ wall' = wall + d
  /\ UNCHANGED <<real, nonces>>

NextNonce ==
  \/ GenerateNonce
  \/ ClockTick
  \/ \E d \in (0 - MaxStep)..MaxStep : ClockStep(d)

\* ------------------------------------------------------------ specifications
vars == <<limVars, restVars, sessVars, clsVars, nonceVars>>

\* a client whose rate limiter is used by concurrent callers
InitSpecLimiter ==
  InitLimiter /\ QuietDispatch /\ QuietSession /\ QuietClassifier /\ QuietNonce

SpecLimiter ==
  InitSpecLimiter
    /\ [][NextLimiter /\ UNCHANGED <<restVars, sessVars, clsVars, nonceVars>>]_vars

\* a client whose REST endpoint methods are called by concurrent tasks
InitSpecDispatch ==
  InitLimiter /\ tier = "Tier1" /\ InitDispatch /\ QuietSession /\ QuietClassifier /\ QuietNonce

SpecDispatch ==
  InitSpecDispatch
    /\ [][NextDispatch /\ UNCHANGED <<limVars, sessVars, clsVars, nonceVars>>]_vars

\* a client with one WebSocketApi, its connections and their pumps
InitSpecSession ==
  InitLimiter /\ tier = "Tier1" /\ QuietDispatch /\ InitSession /\ QuietClassifier /\ QuietNonce

SpecSession ==
  InitSpecSession
    /\ [][NextSession /\ UNCHANGED <<limVars, restVars, clsVars, nonceVars>>]_vars

\* the same client, the spawned pump tasks being scheduled whenever they can
\* run: a step of a pump that stays possible is eventually taken; what the
\* caller, the consumer and the peer do is up to them
WriterStep(g) ==
  WriterRecv(g) \/ WriterLock(g) \/ \E ok \in BOOLEAN : WriterSend(g, ok)

ReaderStep(g) ==
  ReaderPush(g) \/ ReaderPongLock(g) \/ \E ok \in BOOLEAN : ReaderPongSend(g, ok)

FairSessionStep == NextSession /\ UNCHANGED <<limVars, restVars, clsVars, nonceVars>>

SpecSessionFair ==
  InitSpecSession
    /\ [][FairSessionStep]_vars
    /\ \A g \in Conns :
         /\ WF_vars(WriterStep(g) /\ UNCHANGED <<limVars, restVars, clsVars, nonceVars>>)
         /\ WF_vars(ReaderStep(g) /\ UNCHANGED <<limVars, restVars, clsVars, nonceVars>>)

\* a client with one connection whose inbound or outbound channel fills up
InitSpecFlood ==
  InitLimiter /\ tier = "Tier1" /\ QuietDispatch /\ InitFlood /\ QuietClassifier /\ QuietNonce

SpecFlood ==
  InitSpecFlood
    /\ [][NextFlood /\ UNCHANGED <<limVars, restVars, clsVars, nonceVars>>]_vars

\* the Text arm of the reader pump, given any of the texts considered
InitSpecClassifier ==
  InitLimiter /\ tier = "Tier1" /\ QuietDispatch /\ QuietSession /\ InitClassifier /\ QuietNonce

SpecClassifier ==
  InitSpecClassifier
    /\ [][NextClassifier /\ UNCHANGED <<limVars, restVars, sessVars, nonceVars>>]_vars

\* a connection on which the peer sends any of the texts considered
InitSpecTextFrame ==
  InitLimiter /\ tier = "Tier1" /\ QuietDispatch /\ QuietSession /\ InitClassifier /\ QuietNonce

SpecTextFrame ==
  InitSpecTextFrame /\ [][NextTextFrame /\ UNCHANGED <<limVars, restVars, nonceVars>>]_vars

\* a client that connects, enqueues control frames and connects again, its
\* peer sending pings; the spawned pumps run whenever they can
PongStep(g) == ReaderPongLock(g) \/ \E ok \in BOOLEAN : ReaderPongSend(g, ok)

NextReconnect ==
  \/ nconn < 2 /\ \E ok \in BOOLEAN : Connect(ok)
  \/ \E op \in Ops : ApiCall(op)
  \/ \E g \in Conns : WriterRecv(g)
  \/ \E g \in Conns : WriterLock(g)
  \/ \E g \in Conns, ok \in BOOLEAN : WriterSend(g, ok)
  \/ \E g \in Conns : ReaderNext(g, "ping")
  \/ \E g \in Conns : ReaderPongLock(g)
  \/ \E g \in Conns, ok \in BOOLEAN : ReaderPongSend(g, ok)

InitSpecReconnect ==
  InitLimiter /\ tier = "Tier1" /\ QuietDispatch /\ InitReconnect /\ QuietClassifier /\ QuietNonce

SpecReconnect ==
  InitSpecReconnect
    /\ [][NextReconnect /\ UNCHANGED <<limVars, restVars, clsVars, nonceVars>>]_vars
    /\ \A g \in Conns :
         /\ WF_vars(WriterStep(g) /\ UNCHANGED <<limVars, restVars, clsVars, nonceVars>>)
         /\ WF_vars(PongStep(g) /\ UNCHANGED <<limVars, restVars, clsVars, nonceVars>>)

\* the tasks of a client calling generate_nonce for their private requests
InitSpecNonce ==
  InitLimiter /\ tier = "Tier1" /\ QuietDispatch /\ QuietSession
    /\ QuietClassifier /\ InitNonce

SpecNonce ==
  InitSpecNonce
    /\ [][NextNonce /\ UNCHANGED <<limVars, restVars, sessVars, clsVars>>]_vars

\* --------------------------------------------------- rate limiter: claims
Critical == {"take", "tunt_refill", "tunt_elapsed"}

\* C1: a fresh limiter holds max_tokens tokens in every tier (15, 20, 20, 15),
\* and as long as no refill period has elapsed the first max_tokens acquire
\* calls all return a zero wait and each takes exactly one token.
C1_FreshBucketBurst ==
  /\ tiers["Tier1"].max_tokens = 15 /\ tiers["Tier2"].max_tokens = 20
  /\ tiers["Tier3"].max_tokens = 20 /\ tiers["Tier4"].max_tokens = 15
  /\ \A t \in Tier :
       /\ completed[t] = 0 => tiers[t].tokens = tiers[t].max_tokens
       /\ (now < tiers[t].refill_time /\ completed[t] <= tiers[t].max_tokens) =>
            /\ zeroRet[t] = completed[t]
            /\ tiers[t].tokens = tiers[t].max_tokens - completed[t]
            /\ \A c \in Callers : (t = tier /\ pc[c] = "ret") => (ret[c] = 0 /\ took[c])

C1_Witness ==
  /\ now < tiers[tier].refill_time
  /\ completed[tier] = tiers[tier].max_tokens
  /\ zeroRet[tier] = tiers[tier].max_tokens
  /\ tiers[tier].tokens = 0

\* C2: an acquire that returns while the bucket is empty and less than one
\* refill period has elapsed since last_refill takes no token and returns a
\* wait that is > 0 and <= the refill period; no returned wait is negative.
C2_ExhaustedWait ==
  /\ [](\A c \in Callers : ret[c] >= 0 /\ ret[c] <= tiers[tier].refill_time)
  /\ [][\A c \in Callers :
          ( /\ pc[c] # "ret" /\ pc'[c] = "ret"
            /\ tiers[tier].tokens = 0
            /\ now - tiers[tier].last_refill < tiers[tier].refill_time )
          => ( /\ ret'[c] > 0
               /\ ret'[c] <= tiers[tier].refill_time
               /\ ret'[c] = tiers[tier].refill_time - (now - tiers[tier].last_refill)
               /\ ~took'[c]
               /\ tiers' = tiers )]_vars

C2_Witness ==
  \E c \in Callers :
    /\ pc[c] = "ret" /\ ~took[c]
    /\ tiers[tier].tokens = 0
    /\ ret[c] > 0 /\ ret[c] < tiers[tier].refill_time

\* C3: in every reachable state each tier's token count is an integer in
\* 0 .. max_tokens.
C3_TokensInRange ==
  \A t \in Tier :
    /\ tiers[t].tokens \in 0..tiers[t].max_tokens
    /\ tiers[t].max_tokens = TierMaxTokens(t)

\* a refill of more tokens than the bucket had room for has been applied
C3_Witness ==
  /\ completed[tier] = 1
  /\ tiers[tier].last_refill >= tiers[tier].refill_time
  /\ tiers[tier].tokens = tiers[tier].max_tokens - 1

\* C4: wait calls acquire once; when that acquire returned a non-zero wait,
\* wait sleeps and returns without calling acquire again, and no token was
\* taken by the call.
C4_WaitDoesNotReacquire ==
  /\ [](\A c \in Callers :
          (pc[c] \in {"ret", "sleep"} /\ ret[c] > 0) => ~took[c])
  /\ [](\A c \in Callers : pc[c] = "sleep" => (fn[c] = "wait" /\ ret[c] > 0))
  /\ [][\A c \in Callers :
          ( /\ fn[c] = "wait"
            /\ \/ pc[c] = "sleep"
               \/ pc[c] = "ret" /\ ret[c] > 0
            /\ pc'[c] # pc[c] )
          => ( /\ pc[c] = "ret" => pc'[c] = "sleep"
               /\ pc[c] = "sleep" => pc'[c] = "idle"
               /\ tiers' = tiers
               /\ completed' = completed )]_vars

C4_Witness ==
  \E c \in Callers :
    /\ pc[c] = "sleep" /\ fn[c] = "wait"
    /\ now >= wake[c]
    /\ tiers[tier].tokens = 0

\* C5: refill-and-decrement is atomic among the callers of a tier: at most
\* one caller is inside the locked section, and while no refill period has
\* elapsed, of n acquire calls on a full bucket of k tokens exactly min(n, k)
\* returned zero, the others a non-zero wait, and k - min(n, k) tokens remain.
C5_AtomicAcquire ==
  /\ Cardinality({c \in Callers : pc[c] \in Critical}) <= 1
  /\ \A c \in Callers : pc[c] \in Critical => mutex = c
  /\ \A t \in Tier :
       /\ tiers[t].tokens >= 0
       /\ now < tiers[t].refill_time =>
            /\ zeroRet[t] = Min(completed[t], tiers[t].max_tokens)
            /\ tiers[t].tokens = tiers[t].max_tokens - Min(completed[t], tiers[t].max_tokens)
  /\ \A c \in Callers :
       (now < tiers[tier].refill_time /\ pc[c] = "ret" /\ ~took[c]) => ret[c] > 0

\* two calls raced for the last token: one got it, the other a wait
C5_Witness ==
  /\ now < tiers[tier].refill_time
  /\ completed[tier] = tiers[tier].max_tokens + 1
  /\ tiers[tier].tokens = 0
  /\ \E c, d \in Callers :
       /\ pc[c] = "ret" /\ took[c] /\ ret[c] = 0
       /\ pc[d] = "ret" /\ ~took[d] /\ ret[d] > 0

\* C6: the lock is held only inside acquire: a caller that has returned from
\* acquire, is sleeping in wait or is idle never owns it, so a free lock is
\* all another caller's acquire needs.
C6_NoSleepUnderLock ==
  /\ \A c \in Callers : pc[c] \in {"ret", "sleep", "idle", "lock"} => mutex # c
  /\ (\A c \in Callers : pc[c] \notin Critical) => mutex = 0

\* one caller sleeps in wait while another holds the lock inside acquire
C6_Witness ==
  \E c, d \in Callers :
    /\ pc[c] = "sleep" /\ now < wake[c]
    /\ pc[d] \in Critical /\ mutex = d

\* --------------------------------------------------- REST dispatch: claims
\* C7: every HTTP request an endpoint method sends is preceded, in the same
\* call, by a completed limiter.wait(tier).
C7_WaitBeforeRequest ==
  \A r \in Tasks :
    \A i \in 1..Len(restLog[r]) :
      restLog[r][i] = "http_send" =>
        \E j \in 1..(i - 1) : restLog[r][j] = "limiter_wait"

\* ------------------------------------------------ streaming session: claims
\* C8: as long as connect() has never been called no Sender is stored, every
\* control operation called so far returned the NotConnected error, and no
\* outbound channel exists or holds a frame.
C8_NotConnectedBeforeConnect ==
  nconn = 0 =>
    /\ tx = 0
    /\ nops > 0 => (lastCall.op \in Ops /\ lastCall.res = "NotConnected")
    /\ \A g \in Conns : out[g] = <<>> /\ rx[g] = "none" /\ writer[g] = "none"

C8_Witness ==
  /\ nconn = 0
  /\ nops >= 2
  /\ lastCall.op = "subscribe"
  /\ lastCall.res = "NotConnected"

\* C9: once the reader pump of the current connection has read a close
\* frame, no subscribe or unsubscribe call returns Ok.
C9_ErrorAfterCloseFrame ==
  [][( /\ tx # 0
       /\ closeAt[tx] # 0
       /\ nops' = nops + 1
       /\ lastCall'.op \in {"subscribe", "unsubscribe"} )
     => lastCall'.res # "Ok"]_vars

\* C10: the reader pump ends on the close frame: nothing is read from the
\* transport after it, every inbound item stems from a frame that preceded
\* it, nothing is pushed to the inbound channel any more (items pushed before
\* can still be taken), and the pump's Sender is gone.
C10_NothingAfterCloseFrame ==
  /\ [](\A g \in Conns :
          closeAt[g] # 0 =>
            /\ reader[g] = "exit"
            /\ nread[g] = closeAt[g]
            /\ rmsg[g] = NoMsg
            /\ \A i \in 1..Len(inb[g]) : inb[g][i].idx < closeAt[g])
  /\ [][\A g \in Conns :
          closeAt[g] # 0 =>
            /\ nread'[g] = nread[g]
            /\ reader'[g] = "exit"
            /\ inb'[g] \in {inb[g], <<>>} \cup
                 (IF inb[g] # <<>> THEN {Tail(inb[g])} ELSE {})]_vars

\* a text frame was read before the close frame and is still queued
C10_Witness ==
  \E g \in Conns :
    /\ closeAt[g] = 2
    /\ reader[g] = "exit"
    /\ handle[g] = "held"
    /\ Len(inb[g]) = 1

\* C11: once close() has returned Ok, a subscribe or unsubscribe called next
\* on the same connection fails with an error instead of enqueueing.
C11_FailFastAfterClose ==
  [][( /\ lastCall.op = "close" /\ lastCall.res = "Ok"
       /\ lastCall.conn = tx
       /\ nops' = nops + 1
       /\ lastCall'.op \in {"subscribe", "unsubscribe"} )
     => (lastCall'.res # "Ok" /\ out' = out)]_vars

\* C12: a control operation called on a WebSocketApi whose connect() returned
\* an error fails with the NotConnected error.
C12_NotConnectedAfterFailedConnect ==
  (lastCall.conn # 0 /\ writer[lastCall.conn] = "none") =>
     lastCall.res = "NotConnected"

\* the frames the caller enqueued that have been written to the transport
CallerFrames(g) == SelectSeq(sink[g], LAMBDA m : m.op # "pong")

\* the caller's frames from the transport back to the end of the channel
Pipeline(g) ==
  CallerFrames(g) \o (IF wmsg[g] # NoFrame THEN <<wmsg[g]>> ELSE <<>>) \o out[g]

\* C13: the frames written to the transport for the caller are in the order
\* in which the control operations enqueued them, each at most once, and the
\* frames still on their way follow them in that order.
C13_OutboundFifo ==
  \A g \in Conns :
    /\ \A i \in 1..Len(Pipeline(g)) :
         Pipeline(g)[i].op \in Ops /\ Pipeline(g)[i].seq \in 1..nops
    /\ \A i, j \in 1..Len(Pipeline(g)) :
         i < j => Pipeline(g)[i].seq < Pipeline(g)[j].seq

\* two frames were enqueued before the writer pump wrote both
C13_Witness ==
  \E g \in Conns :
    /\ Len(CallerFrames(g)) = 2
    /\ CallerFrames(g)[1].seq + 1 = CallerFrames(g)[2].seq
    /\ out[g] = <<>>

\* the positions on the wire of the text frames read, and the results the
\* Text arm built from them, in the order read
TextPositions(g) ==
  SelectSeq([i \in 1..Len(wire[g]) |-> i],
            LAMBDA i : wire[g][i].kind \in {"text", "garbage"})

TextResults(g) ==
  [k \in 1..Len(TextPositions(g)) |->
     Forward(wire[g][TextPositions(g)[k]].kind, TextPositions(g)[k])]

IsPrefix(s, t) == Len(s) <= Len(t) /\ SubSeq(t, 1, Len(s)) = s

\* C14: what the consumer has received, followed by what is queued for it,
\* is a prefix of the results of the text frames read, in the order read.
C14_InboundOrder ==
  \A g \in Conns : IsPrefix(got[g] \o inb[g], TextResults(g))

\* the consumer received the results of two text frames
C14_Witness ==
  \E g \in Conns :
    /\ Len(got[g]) = 2
    /\ got[g][1].idx < got[g][2].idx

\* the result the reader pump holds while it waits to push it
Pending(g) == IF rmsg[g] # NoMsg THEN <<rmsg[g]>> ELSE <<>>

\* C15: neither channel ever holds more than its capacity of 100; while the
\* inbound channel is full the reader pump stays at its push and reads
\* nothing; and as long as the consumer holds the Receiver every result of a
\* text frame read has been received, is queued, or is the one being pushed.
C15_BoundedBackpressure ==
  /\ [](\A g \in Conns :
          /\ Len(out[g]) <= ChannelCapacity
          /\ Len(inb[g]) <= ChannelCapacity
          /\ handle[g] = "held" =>
               got[g] \o inb[g] \o Pending(g) = TextResults(g))
  /\ [][\A g \in Conns :
          (Len(inb[g]) = ChannelCapacity /\ reader[g] = "push"
             /\ handle[g] = "held")
          => ( /\ reader'[g] = "push"
               /\ rmsg'[g] = rmsg[g]
               /\ nread'[g] = nread[g]
               /\ wire'[g] = wire[g] )]_vars

\* the inbound channel is full and the reader pump holds one more result
C15_Witness ==
  /\ Len(inb[1]) = ChannelCapacity
  /\ reader[1] = "push"
  /\ nread[1] = ChannelCapacity + 1
  /\ got[1] = <<>>

\* the pongs written to the transport and the pings read from it
PongFrames(g) == SelectSeq(sink[g], LAMBDA m : m.op = "pong")
PingsRead(g) == SelectSeq(wire[g], LAMBDA m : m.kind = "ping")

C17_TransportErrorIsTerminal ==
  [][\A g \in Conns :
       failed[g] # {} =>
         /\ nread'[g] = nread[g]
         /\ sink'[g] = sink[g]
         /\ (nops' = nops + 1 /\ lastCall'.conn = g) => lastCall'.res # "Ok"]_vars

\* C18: once the caller has dropped the WebSocketApi and the Receiver of a
\* connection, both pumps of that connection eventually exit.
C18_TeardownExits ==
  \A g \in Conns :
    []((~api /\ handle[g] = "dropped")
         => <>(writer[g] = "exit" /\ reader[g] = "exit"))

\* ------------------------------------------- text classification: claims
\* an object whose only member, but for an optional reqid, is event
EventOnly(t) ==
  /\ t.shape = "object"
  /\ \A k \in (DOMAIN t.m) \ {"event", "reqid"} : t.m[k] = Absent

\* C19: an object holding nothing but event (and possibly reqid) is made the
\* Heartbeat variant when event is "heartbeat", the Ping variant when it is
\* "ping" and the Pong variant when it is "pong".
C19_EventOnlyControl ==
  (variant # "none" /\ EventOnly(frame)) =>
     /\ frame.m.event = "heartbeat" => variant = "Heartbeat"
     /\ frame.m.event = "ping" => variant = "Ping"
     /\ frame.m.event = "pong" => variant = "Pong"

\* C20: an object with the members of an error notice (event, errorMessage
\* and status strings, subscription and pair present or not) is made the
\* Error variant, whatever else it holds.
C20_ErrorNotice ==
  ( /\ variant # "none"
    /\ frame.shape = "object"
    /\ IsString(frame.m.event)
    /\ IsString(frame.m.errorMessage)
    /\ IsString(frame.m.status)
    /\ frame.m.subscription \in {Absent, Sub}
    /\ IsOptString(frame.m.pair) )
  => variant = "Error"

\* an object of the subscription-status shape: event "subscriptionStatus",
\* status, subscription, the three optional members present or not, and no
\* member of the system-status shape
SubscriptionStatusShape(t) ==
  /\ t.shape = "object"
  /\ t.m.event = "subscriptionStatus"
  /\ t.m.status = Str
  /\ t.m.subscription = Sub
  /\ t.m.channelID \in {Absent, Num}
  /\ t.m.channelName \in {Absent, Str}
  /\ t.m.pair \in {Absent, Str}
  /\ t.m.connectionID = Absent /\ t.m.version = Absent

\* C21: an object of the subscription-status shape is made the
\* SubscriptionStatus variant; each field holds the value of its member, and
\* channel_id, channel_name and pair are None when their member is missing.
C21_SubscriptionStatusFields ==
  (variant # "none" /\ SubscriptionStatusShape(frame)) =>
     /\ variant = "SubscriptionStatus"
     /\ DOMAIN fields =
          {"channel_id", "channel_name", "event", "pair", "status", "subscription"}
     /\ fields.event = frame.m.event
     /\ fields.status = frame.m.status
     /\ fields.subscription = frame.m.subscription
     /\ fields.channel_id =
          (IF frame.m.channelID = Absent THEN None ELSE frame.m.channelID)
     /\ fields.channel_name =
          (IF frame.m.channelName = Absent THEN None ELSE frame.m.channelName)
     /\ fields.pair = (IF frame.m.pair = Absent THEN None ELSE frame.m.pair)

\* a subscription status with channelName but neither channelID nor pair
C21_Witness ==
  /\ variant = "SubscriptionStatus"
  /\ SubscriptionStatusShape(frame)
  /\ frame.m.channelName = Str /\ frame.m.pair = Absent
  /\ frame.m.channelID = Absent
  /\ fields.channel_name = Str /\ fields.pair = None /\ fields.channel_id = None

\* C22: a top-level array is made the DataArray variant, which holds as many
\* elements as the array, each equal to the array's element at its position.
C22_DataArrayElements ==
  (variant # "none" /\ frame.shape = "array") =>
     /\ variant = "DataArray"
     /\ \A k \in 1..6 : ~Matches(Variants[k], frame)
     /\ Len(fields.elems) = Len(frame.elems)
     /\ \A i \in 1..Len(frame.elems) : fields.elems[i] = frame.elems[i]

\* the array [1, 2, "ticker", "XBT/USD"]
C22_Witness ==
  /\ variant = "DataArray"
  /\ frame.elems = <<Num, Num, Str, Str>>
  /\ fields.elems = <<Num, Num, Str, Str>>

\* an object that matches none of the struct variants
NoShape(t) == t.shape = "object" /\ \A k \in 1..6 : ~Matches(Variants[k], t)

\* C23: the Text arm yields the parse error exactly for a text that is not
\* JSON; a JSON scalar and an object of no known shape are made Generic; and
\* the text frame read puts exactly one item into the inbound channel, an Err
\* exactly for the parse error.
C23_ParseErrorIffInvalid ==
  /\ variant = "none" => got[1] \o inb[1] \o Pending(1) = <<>>
  /\ variant # "none" =>
       /\ variant = "ParseError" <=> frame.shape = "invalid"
       /\ frame.shape = "scalar" => variant = "Generic"
       /\ NoShape(frame) => variant = "Generic"
       /\ Len(got[1] \o inb[1] \o Pending(1)) = 1
       /\ (got[1] \o inb[1] \o Pending(1))[1].res =
            (IF frame.shape = "invalid" THEN "Err" ELSE "Ok")

\* the consumer received the Generic message made of a bare JSON scalar
C23_Witness ==
  /\ frame.shape = "scalar"
  /\ variant = "Generic"
  /\ Len(got[1]) = 1 /\ got[1][1].res = "Ok"

\* ------------------------------------------- rate limiter: further claims
\* C24: the limiter holds a bucket for each of the four tiers at all times;
\* no call panics, and what acquire returns is a Duration, zero or positive
\* and no longer than the refill period.
C24_NeverAnError ==
  /\ DOMAIN tiers = Tier
  /\ \A c \in Callers :
       /\ pc[c] # "panic"
       /\ pc[c] \in {"idle", "lock", "take", "tunt_refill", "tunt_elapsed",
                     "ret", "sleep"}
       /\ ret[c] \in 0..TierRefillTime(tier)

\* under contention on Tier4 one wait call sleeps, another call has its token
C24_Witness ==
  /\ tier = "Tier4"
  /\ \E c, d \in Callers :
       /\ pc[c] = "sleep" /\ fn[c] = "wait" /\ ret[c] > 0
       /\ pc[d] = "ret" /\ ret[d] = 0 /\ took[d]

\* ------------------------------------------------------------ nonce: claims
\* C25: of two calls of generate_nonce the later never returns the smaller
\* nonce, and returns the greater one when made a millisecond or more after
\* the earlier.
C25_NonceIncreasing ==
  \A i, j \in 1..Len(nonces) :
    i < j =>
      /\ nonces[j].nonce >= nonces[i].nonce
      /\ nonces[j].at >= nonces[i].at + 1 => nonces[j].nonce > nonces[i].nonce

\* C26: every refill step of acquire (the one in take and the one in
\* time_until_next_token) read the clock once: when at least one refill
\* period has elapsed since last_refill, the token count before the decrement
\* is min(tokens + floor(elapsed / refill_period), max_tokens) and last_refill
\* is the clock reading; otherwise neither changes.  No step moves the
\* last_refill of any tier backward.
C26_RefillStep ==
  [][/\ \A c \in Callers :
          (pc[c] \in {"take", "tunt_refill"} /\ pc'[c] # pc[c]) =>
            LET b == tiers[tier]
                b2 == tiers'[tier]
                elapsed == now - b.last_refill
                decrement == IF pc[c] = "take" /\ took'[c] THEN 1 ELSE 0
                before == b2.tokens + decrement
            IN IF elapsed >= TierRefillTime(tier)
               THEN /\ before = Min(b.tokens + elapsed \div TierRefillTime(tier),
                                    TierMaxTokens(tier))
                    /\ b2.last_refill = now
               ELSE /\ before = b.tokens
                    /\ b2.last_refill = b.last_refill
     /\ \A t \in Tier : tiers'[t].last_refill >= tiers[t].last_refill
    ]_vars

\* a take that applied a refill and then decremented
C26_Witness ==
  \E c \in Callers :
    /\ pc[c] = "ret"
    /\ took[c]
    /\ now > 0
    /\ tiers[tier].last_refill = now
    /\ tiers[tier].tokens = 0

\* C27: a caller that was handed a non-zero wait holds nothing: it took no
\* token and does not own the lock; and the caller that owns the lock gets a
\* token exactly when the refilled bucket holds one, whoever else is waiting.
C27_NoReservation ==
  [][/\ \A c \in Callers :
          (pc'[c] \in {"ret", "sleep"} /\ ret'[c] > 0) => ~took'[c] /\ mutex' # c
     /\ \A d \in Callers :
          (pc[d] = "take" /\ pc'[d] # "take") =>
            (took'[d] <=> Refill(tiers[tier], now).tokens > 0)
    ]_vars

\* caller c was told to wait and is still asleep past its deadline; caller d
\* then refilled the bucket and took the token c was waiting for
C27_Witness ==
  \E c, d \in Callers :
    /\ c # d
    /\ pc[c] = "sleep"
    /\ ret[c] > 0
    /\ now >= wake[c]
    /\ pc[d] = "ret"
    /\ took[d]
    /\ ret[d] = 0
    /\ tiers[tier].last_refill > wake[c] - ret[c]
    /\ tiers[tier].tokens = 0

\* C28: for every tier the number of acquire calls that have returned a zero
\* wait by the current time is at most max_tokens + floor(now / refill_period).
C28_RateBound ==
  \A t \in Tier : zeroRet[t] <= TierMaxTokens(t) + now \div TierRefillTime(t)

\* C29: the write sink of a connection is owned by the writer pump exactly
\* while it is in its send and by the reader pump exactly while it is in its
\* pong send, never by both; a pump waiting on a channel (rx.recv, read.next,
\* message_tx.send) owns nothing, and whoever owns the sink can take the step
\* that releases it, so a pump waiting for the lock is never waiting for a
\* pump that waits for it.
C29_SendHalfExclusive ==
  \A g \in Conns :
    /\ wlock[g] = "writer" <=> writer[g] = "send"
    /\ wlock[g] = "reader" <=> reader[g] = "pongsend"
    /\ ~(writer[g] = "send" /\ reader[g] = "pongsend")
    /\ writer[g] = "recv" => wlock[g] # "writer"
    /\ reader[g] \in {"next", "push"} => wlock[g] # "reader"
    /\ wlock[g] = "writer" => ENABLED WriterSend(g, TRUE)
    /\ wlock[g] = "reader" => ENABLED ReaderPongSend(g, TRUE)

\* the writer pump holds a caller frame and waits for the lock while the
\* reader pump owns the sink to write a pong
C29_Witness ==
  \E g \in Conns :
    /\ writer[g] = "lock"
    /\ wmsg[g] # NoFrame
    /\ reader[g] = "pongsend"
    /\ wlock[g] = "reader"

\* steps of a session: which channel a step can extend
OldChannelsNeverGrow ==
  \A g \in Conns : (g # nconn') => (Len(out'[g]) <= Len(out[g]))

OkGoesToLatest ==
  (nops' = nops + 1 /\ lastCall'.res = "Ok") =>
    /\ lastCall'.conn = nconn
    /\ Len(out'[nconn]) = Len(out[nconn]) + 1
    /\ out'[nconn][Len(out'[nconn])].seq = nops'

====
